---- MODULE Spec2Model ----
\* Verification model of the book-metadata pipeline:
\*   - field heuristics     (parsers/openlib_parser.py, parsers/google_parser.py)
\*   - record normalizers   (OpenLibraryParser._structure_data,
\*                           GoogleBooksParser.get_all_structured_data)
\*   - tree translators     (translation/translator.py, utils/data_processor.py)
\* Three specifications share the module: SpecHeur, SpecNorm and SpecTrans.
\* Each one keeps the variables of the other two at their idle value.
EXTENDS Integers, Sequences, FiniteSets, TLC

VARIABLES
    h_fn, h_arg, h_ret,
    n_parser, raw_books, n_i, n_status,
    authors, genres, books, book_authors, book_genres,
    seen_authors, seen_genres, next_uuid,
    t_impl, t_translator, t_lang, t_sched, t_in,
    t_task, t_inflight, t_calls, t_order, t_status, t_out, t_fault,
    r_status, r_response,
    g_session, g_sessions, g_req

hvars == <<h_fn, h_arg, h_ret>>
nvars == <<n_parser, raw_books, n_i, n_status, authors, genres, books,
           book_authors, book_genres, seen_authors, seen_genres, next_uuid>>
tvars == <<t_impl, t_translator, t_lang, t_sched, t_in,
           t_task, t_inflight, t_calls, t_order, t_status, t_out, t_fault>>
rvars == <<r_status, r_response>>
gvars == <<g_session, g_sessions, g_req>>
vars == <<hvars, nvars, tvars, rvars, gvars>>

\* What a call that has not returned yet holds, and the variables of a
\* component no call is made on
Pending == [tag |-> "pending"]
Idle == [tag |-> "idle"]

HeurIdle == h_fn = "idle" /\ h_arg = Idle /\ h_ret = Idle

NormIdle ==
    /\ n_parser = "idle" /\ raw_books = <<>> /\ n_i = 0 /\ n_status = "idle"
    /\ authors = <<>> /\ genres = <<>> /\ books = <<>>
    /\ book_authors = <<>> /\ book_genres = <<>>
    /\ seen_authors = {} /\ seen_genres = {} /\ next_uuid = 0

RouteIdle == r_status = "idle" /\ r_response = Idle

SessIdle == g_session = 0 /\ g_sessions = <<>> /\ g_req = <<>>

TransIdle ==
    /\ t_impl = "idle" /\ t_translator = "idle" /\ t_lang = "idle" /\ t_sched = "idle"
    /\ t_in = Idle /\ t_task = Idle
    /\ t_inflight = <<>> /\ t_calls = <<>> /\ t_order = <<>>
    /\ t_status = "idle" /\ t_out = Idle /\ t_fault = {}

-----------------------------------------------------------------------------
\* Python values.  None, str and int are tagged so that they compare.
\* A str whose characters matter is a sequence of one-character strings.

NoneV == [tag |-> "None"]
StrV(s) == [tag |-> "str", v |-> s]
IntV(n) == [tag |-> "int", v |-> n]
BoolV(b) == [tag |-> "bool", v |-> b]
ListV(l) == [tag |-> "list", v |-> l]
\* a dict keeps its keys in insertion order; vals[k] is the value of keys[k]
DictV(keys, vals) == [tag |-> "dict", keys |-> keys, vals |-> vals]

LowerLetters == <<"a","b","c","d","e","f","g","h","i","j","k","l","m",
                  "n","o","p","q","r","s","t","u","v","w","x","y","z">>
UpperLetters == <<"A","B","C","D","E","F","G","H","I","J","K","L","M",
                  "N","O","P","Q","R","S","T","U","V","W","X","Y","Z">>
Whitespace == {" ", "\t"}
Digits == <<"0","1","2","3","4","5","6","7","8","9">>

IsLower(c) == \E i \in 1..26 : LowerLetters[i] = c
IsUpper(c) == \E i \in 1..26 : UpperLetters[i] = c
IsCased(c) == IsLower(c) \/ IsUpper(c)
IsDigit(c) == \E i \in 1..10 : Digits[i] = c
DigitVal(c) == (CHOOSE i \in 1..10 : Digits[i] = c) - 1

\* str.lower / str.upper on one character
CharLower(c) == IF IsUpper(c) THEN LowerLetters[CHOOSE i \in 1..26 : UpperLetters[i] = c] ELSE c
CharUpper(c) == IF IsLower(c) THEN UpperLetters[CHOOSE i \in 1..26 : LowerLetters[i] = c] ELSE c

\* str.lower()
StrLower(s) == [i \in 1..Len(s) |-> CharLower(s[i])]
\* str.upper() (used to build inputs only)
StrUpper(s) == [i \in 1..Len(s) |-> CharUpper(s[i])]

\* str.title(): a cased character is upper-cased when the previous character
\* is not cased and lower-cased when it is.
StrTitle(s) ==
    [i \in 1..Len(s) |->
        IF i > 1 /\ IsCased(s[i-1]) THEN CharLower(s[i]) ELSE CharUpper(s[i])]

\* str.strip(): drop leading and trailing whitespace
RECURSIVE LStrip(_)
LStrip(s) == IF s # <<>> /\ s[1] \in Whitespace THEN LStrip(Tail(s)) ELSE s
RECURSIVE RStrip(_)
RStrip(s) ==
    IF s # <<>> /\ s[Len(s)] \in Whitespace THEN RStrip(SubSeq(s, 1, Len(s) - 1)) ELSE s
StrStrip(s) == RStrip(LStrip(s))

\* str.replace(old, ''): remove the non-overlapping occurrences, left to right
RECURSIVE StrRemove(_, _)
StrRemove(s, old) ==
    IF Len(s) < Len(old) THEN s
    ELSE IF SubSeq(s, 1, Len(old)) = old
         THEN StrRemove(SubSeq(s, Len(old) + 1, Len(s)), old)
         ELSE <<s[1]>> \o StrRemove(Tail(s), old)

\* str.split(sep)[0]: the text before the first separator
RECURSIVE SplitFirst(_, _)
SplitFirst(s, sep) ==
    IF s = <<>> \/ s[1] = sep THEN <<>> ELSE <<s[1]>> \o SplitFirst(Tail(s), sep)

\* Python truth value
Truthy(x) ==
    CASE x.tag = "None" -> FALSE
      [] x.tag = "str"  -> x.v # <<>>
      [] x.tag = "int"  -> x.v # 0
      [] x.tag = "bool" -> x.v
      [] x.tag = "list" -> x.v # <<>>
      [] x.tag = "dict" -> x.keys # <<>>
      [] OTHER          -> TRUE

-----------------------------------------------------------------------------
\* Field heuristics

\* Mutant of OL_get_size_description: the bucket limits taken inclusively
OL_get_size_description_inclusive(pages) ==
    IF ~Truthy(pages) THEN NoneV
    ELSE IF pages.v <= 50 THEN StrV("Very Short")
    ELSE IF pages.v <= 150 THEN StrV("Short")
    ELSE IF pages.v <= 300 THEN StrV("Medium")
    ELSE IF pages.v <= 500 THEN StrV("Long")
    ELSE StrV("Very Long")

\* OpenLibraryParser._get_size_description
OL_get_size_description(pages) ==
    IF ~Truthy(pages) THEN NoneV
    ELSE IF pages.v < 50 THEN StrV("Very Short")
    ELSE IF pages.v < 150 THEN StrV("Short")
    ELSE IF pages.v < 300 THEN StrV("Medium")
    ELSE IF pages.v < 500 THEN StrV("Long")
    ELSE StrV("Very Long")

\* GoogleBooksParser._get_size_description
G_get_size_description(page_count) ==
    IF ~Truthy(page_count) THEN NoneV
    ELSE IF page_count.v < 50 THEN StrV("Very Short")
    ELSE IF page_count.v < 150 THEN StrV("Short")
    ELSE IF page_count.v < 300 THEN StrV("Medium")
    ELSE IF page_count.v < 500 THEN StrV("Long")
    ELSE StrV("Very Long")

\* String literals of the genre tables
S_fiction == <<"f","i","c","t","i","o","n">>
S_nonfiction == <<"n","o","n">> \o S_fiction
S_literature == <<"l","i","t","e","r","a","t","u","r","e">>
S_books == <<"b","o","o","k","s">>
S_stories == <<"s","t","o","r","i","e","s">>
S_printed == <<"p","r","i","n","t","e","d">>
S_Science_Fiction == <<"S","c","i","e","n","c","e"," ","F","i","c","t","i","o","n">>
S_Sci_hyphen_fi == <<"S","c","i","-","f","i">>
S_Sci_Fi == <<"S","c","i"," ","F","i">>
S_Sf == <<"S","f">>
S_Fantasy == <<"F","a","n","t","a","s","y">>
S_Fantasy_Fiction == S_Fantasy \o <<" ","F","i","c","t","i","o","n">>
S_Mystery == <<"M","y","s","t","e","r","y">>
S_Mystery_And_Suspense_Fiction ==
    S_Mystery \o <<" ","A","n","d"," ","S","u","s","p","e","n","s","e",
                   " ","F","i","c","t","i","o","n">>

\* removals list of OpenLibraryParser._normalize_genre
OL_removals == <<S_fiction, S_literature, S_books, S_stories, S_printed>>

\* genre_mappings.get(genre, genre) of OpenLibraryParser._normalize_genre
OL_genre_mappings(genre) ==
    CASE genre = S_Sci_hyphen_fi -> S_Science_Fiction
      [] genre = S_Sci_Fi -> S_Science_Fiction
      [] genre = S_Sf -> S_Science_Fiction
      [] genre = S_Fantasy_Fiction -> S_Fantasy
      [] genre = S_Mystery_And_Suspense_Fiction -> S_Mystery
      [] OTHER -> genre

\* for r in removals: genre = genre.replace(r, '').strip()
RECURSIVE OL_apply_removals(_, _)
OL_apply_removals(genre, k) ==
    IF k > Len(OL_removals) THEN genre
    ELSE OL_apply_removals(StrStrip(StrRemove(genre, OL_removals[k])), k + 1)

\* OpenLibraryParser._normalize_genre
OL_normalize_genre(genre) ==
    IF ~Truthy(genre) THEN NoneV
    ELSE StrV(OL_genre_mappings(OL_apply_removals(StrTitle(StrStrip(genre.v)), 1)))

\* GoogleBooksParser._normalize_genre
G_normalize_genre(genre) ==
    IF ~Truthy(genre) THEN NoneV
    ELSE LET g == StrTitle(StrStrip(genre.v))
         IN  IF StrLower(g) \in {S_fiction, S_nonfiction}
             THEN StrV(StrTitle(g))
             ELSE StrV(StrStrip(SplitFirst(SplitFirst(g, "/"), "&")))

\* datetime.strptime, as far as _extract_year uses it.  A format is a sequence
\* of directives; each directive is the ordered list of the alternatives of
\* its regular expression, an alternative being a sequence of character sets.
DigitSet == {Digits[i] : i \in 1..10}
NonZeroDigitSet == DigitSet \ {"0"}
ReAlternatives(directive) ==
    CASE directive = "Y" -> << <<DigitSet, DigitSet, DigitSet, DigitSet>> >>
      [] directive = "m" -> << <<{"1"}, {"0","1","2"}>>, <<{"0"}, NonZeroDigitSet>>,
                               <<NonZeroDigitSet>> >>
      [] directive = "d" -> << <<{"3"}, {"0","1"}>>, <<{"1","2"}, DigitSet>>,
                               <<{"0"}, NonZeroDigitSet>>, <<NonZeroDigitSet>>,
                               <<{" "}, NonZeroDigitSet>> >>
      [] OTHER -> << <<{directive}>> >>

AltMatches(alt, s, pos) ==
    /\ pos + Len(alt) - 1 <= Len(s)
    /\ \A j \in 1..Len(alt) : s[pos + j - 1] \in alt[j]

\* re.match of the format's pattern at the start of s: the first match in the
\* priority order of the alternatives, with backtracking.
RECURSIVE ReMatch(_, _, _, _, _)
RECURSIVE ReTryAlts(_, _, _, _, _, _)
ReMatch(fmt, k, s, pos, groups) ==
    IF k > Len(fmt) THEN [ok |-> TRUE, end |-> pos, groups |-> groups]
    ELSE ReTryAlts(fmt, k, s, pos, groups, 1)
ReTryAlts(fmt, k, s, pos, groups, a) ==
    LET alts == ReAlternatives(fmt[k]) IN
    IF a > Len(alts) THEN [ok |-> FALSE, end |-> pos, groups |-> groups]
    ELSE IF AltMatches(alts[a], s, pos)
         THEN LET n == Len(alts[a])
                  g == IF fmt[k] \in {"Y", "m", "d"}
                       THEN [groups EXCEPT ![fmt[k]] = SubSeq(s, pos, pos + n - 1)]
                       ELSE groups
                  r == ReMatch(fmt, k + 1, s, pos + n, g)
              IN  IF r.ok THEN r ELSE ReTryAlts(fmt, k, s, pos, groups, a + 1)
         ELSE ReTryAlts(fmt, k, s, pos, groups, a + 1)

\* int() of a matched group (the day group may start with a space)
RECURSIVE GroupInt(_)
GroupInt(g) ==
    IF g = <<>> THEN 0
    ELSE IF g[Len(g)] = " " THEN GroupInt(SubSeq(g, 1, Len(g) - 1))
    ELSE 10 * GroupInt(SubSeq(g, 1, Len(g) - 1)) + DigitVal(g[Len(g)])

IsLeap(y) == y % 4 = 0 /\ (y % 100 # 0 \/ y % 400 = 0)
DaysInMonth(y, m) ==
    IF m = 2 THEN (IF IsLeap(y) THEN 29 ELSE 28)
    ELSE IF m \in {4, 6, 9, 11} THEN 30 ELSE 31

\* An exception raised by a call
Raise(exc) == [tag |-> "raise", v |-> exc]

\* keyword in lower_subject
Contains(s, sub) ==
    \E i \in 1..(Len(s) - Len(sub) + 1) : SubSeq(s, i, i + Len(sub) - 1) = sub

S_juvenile == <<"j","u","v","e","n","i","l","e">>
S_young_adult == <<"y","o","u","n","g"," ","a","d","u","l","t">>
S_children == <<"c","h","i","l","d","r","e","n">>
S_teen == <<"t","e","e","n">>
S_adult == <<"a","d","u","l","t">>

\* Mutant of OL_age_keywords: adult is looked for before the other keywords
OL_age_keywords_adult_first ==
    << <<S_adult, "Adult">>, <<S_juvenile, "Children">>, <<S_young_adult, "Teen">>,
       <<S_children, "Children">>, <<S_teen, "Teen">> >>

\* age_keywords, in the order the dict lists them
OL_age_keywords ==
    << <<S_juvenile, "Children">>, <<S_young_adult, "Teen">>, <<S_children, "Children">>,
       <<S_teen, "Teen">>, <<S_adult, "Adult">> >>

\* the inner loop of _get_age_rating: the rating of the first keyword, from
\* the k-th on, that the subject contains; None if it contains none
RECURSIVE OL_subject_rating(_, _)
OL_subject_rating(lower_subject, k) ==
    IF k > Len(OL_age_keywords) THEN NoneV
    ELSE IF Contains(lower_subject, OL_age_keywords[k][1]) THEN StrV(OL_age_keywords[k][2])
    ELSE OL_subject_rating(lower_subject, k + 1)

\* the outer loop of _get_age_rating, from the i-th subject on
RECURSIVE OL_scan_subjects(_, _)
OL_scan_subjects(subjects, i) ==
    IF i > Len(subjects) THEN NoneV
    ELSE IF subjects[i].tag # "str" THEN Raise("AttributeError")
    ELSE LET rating == OL_subject_rating(StrLower(subjects[i].v), 1)
         IN  IF rating # NoneV THEN rating ELSE OL_scan_subjects(subjects, i + 1)

\* OpenLibraryParser._get_age_rating
OL_get_age_rating(subjects) ==
    IF ~Truthy(subjects) THEN NoneV ELSE OL_scan_subjects(subjects.v, 1)

\* datetime.strptime(date_str, fmt).year: the year, or the exception raised.
\* A value that is not a str is a TypeError; no match, unconverted data or a
\* date that does not exist is a ValueError.  Month and day default to 1 when
\* the format has no directive for them.
Strptime(date_str, fmt) ==
    IF date_str.tag # "str" THEN Raise("TypeError")
    ELSE
    LET s == date_str.v
        r == ReMatch(fmt, 1, s, 1, [Y |-> <<>>, m |-> <<"1">>, d |-> <<"1">>])
        y == GroupInt(r.groups.Y)
        m == GroupInt(r.groups.m)
        d == GroupInt(r.groups.d)
    IN  IF ~r.ok THEN Raise("ValueError")
        ELSE IF r.end # Len(s) + 1 THEN Raise("ValueError")
        ELSE IF y < 1 \/ d > DaysInMonth(y, m) THEN Raise("ValueError")
        ELSE IntV(y)

\* Mutant of G_year_formats: the full-date format left out
G_year_formats_without_day == << <<"Y">>, <<"Y", "-", "m">> >>

\* ('%Y', '%Y-%m', '%Y-%m-%d')
G_year_formats == << <<"Y">>, <<"Y", "-", "m">>, <<"Y", "-", "m", "-", "d">> >>

\* for fmt in (...): try: return strptime(...).year / except ValueError: continue
RECURSIVE G_try_formats(_, _)
G_try_formats(date_str, k) ==
    IF k > Len(G_year_formats) THEN NoneV
    ELSE LET dt == Strptime(date_str, G_year_formats[k])
         IN  IF dt = Raise("ValueError") THEN G_try_formats(date_str, k + 1) ELSE dt

\* GoogleBooksParser._extract_year: the outer except turns every other
\* exception into None.
G_extract_year(date_str) ==
    IF ~Truthy(date_str) THEN NoneV
    ELSE LET r == G_try_formats(date_str, 1)
         IN  IF r.tag = "raise" THEN NoneV ELSE r

-----------------------------------------------------------------------------
\* Record normalizers.  A raw record has the fields the loops read:
\*   title        None, '' or a title
\*   author_name  list of names          (Google Books: 'authors')
\*   author_key   None when the key is missing, else a list of keys
\*   subject      list of subject strings (Google Books: 'categories')
\* An output book keeps id and title; src is the position of its raw record in
\* the batch and stands for the fields copied through from the record.

\* str(uuid.uuid4()): a value never returned before
Uuid4(counter) == counter + 1

\* next(e['id'] for e in entities if e['name'] == name)
IdByName(entities, name) ==
    entities[CHOOSE k \in 1..Len(entities) :
                /\ entities[k].name = name
                /\ \A j \in 1..(k - 1) : entities[j].name # name].id

\* The state a record's loops work on
LoopState ==
    [authors |-> authors, genres |-> genres, books |-> books,
     book_authors |-> book_authors, book_genres |-> book_genres,
     seen_authors |-> seen_authors, seen_genres |-> seen_genres,
     next_uuid |-> next_uuid, raised |-> "none"]

\* Mutant of OL_author_step: seen_authors is never added to
OL_author_step_forgetful(book, book_id, st, i) ==
    LET author_name == book.author_name[i]
        keys == IF book.author_key = NoneV
                THEN [j \in 1..Len(book.author_name) |-> NoneV]
                ELSE book.author_key.v
        author_id == Uuid4(st.next_uuid)
    IN  IF author_name = "" THEN st
        ELSE IF i > Len(keys) THEN [st EXCEPT !.raised = "IndexError"]
        ELSE [st EXCEPT
                !.next_uuid = author_id,
                !.authors = Append(@, [id |-> author_id, name |-> author_name,
                                       key |-> keys[i]]),
                !.book_authors = Append(@, [book_id |-> book_id,
                                            author_id |-> author_id])]

\* Body of "for i, author_name in enumerate(book.get('author_name', []))"
\* (openlib_parser.py), for the i-th name (i counts from 1 here)
OL_author_step(book, book_id, st, i) ==
    LET author_name == book.author_name[i]
        keys == IF book.author_key = NoneV
                THEN [j \in 1..Len(book.author_name) |-> NoneV]
                ELSE book.author_key.v
    IN  IF author_name = "" THEN st
        ELSE IF i > Len(keys) THEN [st EXCEPT !.raised = "IndexError"]
        ELSE IF author_name \notin st.seen_authors
        THEN LET author_id == Uuid4(st.next_uuid)
             IN  [st EXCEPT
                    !.next_uuid = author_id,
                    !.authors = Append(@, [id |-> author_id, name |-> author_name,
                                           key |-> keys[i]]),
                    !.seen_authors = @ \cup {author_name},
                    !.book_authors = Append(@, [book_id |-> book_id,
                                                author_id |-> author_id])]
        ELSE [st EXCEPT
                !.book_authors = Append(@, [book_id |-> book_id,
                                            author_id |-> IdByName(st.authors, author_name)])]

RECURSIVE OL_process_authors(_, _, _, _)
OL_process_authors(book, book_id, st, i) ==
    IF i > Len(book.author_name) \/ st.raised # "none" THEN st
    ELSE OL_process_authors(book, book_id, OL_author_step(book, book_id, st, i), i + 1)

\* Body of "for subject in book.get('subject', [])" (openlib_parser.py)
OL_genre_step(book, book_id, st, i) ==
    LET subject == book.subject[i]
        normalized_genre == OL_normalize_genre(subject)
    IN  IF ~Truthy(normalized_genre) THEN st
        ELSE IF normalized_genre.v \notin st.seen_genres
        THEN LET genre_id == Uuid4(st.next_uuid)
             IN  [st EXCEPT
                    !.next_uuid = genre_id,
                    !.genres = Append(@, [id |-> genre_id, name |-> normalized_genre.v,
                                          original_name |-> subject.v]),
                    !.seen_genres = @ \cup {normalized_genre.v},
                    !.book_genres = Append(@, [book_id |-> book_id,
                                               genre_id |-> genre_id])]
        ELSE [st EXCEPT
                !.book_genres = Append(@, [book_id |-> book_id,
                                           genre_id |-> IdByName(st.genres, normalized_genre.v)])]

RECURSIVE OL_process_genres(_, _, _, _)
OL_process_genres(book, book_id, st, i) ==
    IF i > Len(book.subject) \/ st.raised # "none" THEN st
    ELSE OL_process_genres(book, book_id, OL_genre_step(book, book_id, st, i), i + 1)

\* One iteration of "for book in raw_books" of OpenLibraryParser._structure_data
OL_structure_book(book, src, st) ==
    IF ~Truthy(book.title) THEN st
    ELSE LET book_id == Uuid4(st.next_uuid)
             st1 == [st EXCEPT
                        !.next_uuid = book_id,
                        !.books = Append(@, [id |-> book_id, title |-> book.title,
                                             src |-> src])]
             st2 == OL_process_authors(book, book_id, st1, 1)
         IN  OL_process_genres(book, book_id, st2, 1)

\* Body of "for author_name in book.get('authors', [])" (google_parser.py)
G_author_step(book, book_id, st, i) ==
    LET author_name == book.author_name[i]
        st1 == IF author_name \notin st.seen_authors
               THEN [st EXCEPT
                        !.next_uuid = Uuid4(st.next_uuid),
                        !.authors = Append(@, [id |-> Uuid4(st.next_uuid),
                                               name |-> author_name]),
                        !.seen_authors = @ \cup {author_name}]
               ELSE st
    IN  [st1 EXCEPT
            !.book_authors = Append(@, [book_id |-> book_id,
                                        author_id |-> IdByName(st1.authors, author_name)])]

RECURSIVE G_process_authors(_, _, _, _)
G_process_authors(book, book_id, st, i) ==
    IF i > Len(book.author_name) THEN st
    ELSE G_process_authors(book, book_id, G_author_step(book, book_id, st, i), i + 1)

\* Mutant of G_genre_step: the link row gets an id of its own instead of the
\* id of the genre
G_genre_step_unlinked(book, book_id, st, i) ==
    LET genre_name == book.subject[i]
        normalized_genre == G_normalize_genre(genre_name)
        st1 == IF Truthy(normalized_genre) /\ normalized_genre.v \notin st.seen_genres
               THEN [st EXCEPT
                        !.next_uuid = Uuid4(st.next_uuid),
                        !.genres = Append(@, [id |-> Uuid4(st.next_uuid),
                                              name |-> normalized_genre.v]),
                        !.seen_genres = @ \cup {normalized_genre.v}]
               ELSE st
    IN  IF Truthy(normalized_genre)
        THEN [st1 EXCEPT
                !.next_uuid = Uuid4(st1.next_uuid),
                !.book_genres = Append(@, [book_id |-> book_id,
                                           genre_id |-> Uuid4(st1.next_uuid)])]
        ELSE st1

\* Body of "for genre_name in book.get('categories', [])" (google_parser.py)
G_genre_step(book, book_id, st, i) ==
    LET genre_name == book.subject[i]
        normalized_genre == G_normalize_genre(genre_name)
        st1 == IF Truthy(normalized_genre) /\ normalized_genre.v \notin st.seen_genres
               THEN [st EXCEPT
                        !.next_uuid = Uuid4(st.next_uuid),
                        !.genres = Append(@, [id |-> Uuid4(st.next_uuid),
                                              name |-> normalized_genre.v]),
                        !.seen_genres = @ \cup {normalized_genre.v}]
               ELSE st
    IN  IF Truthy(normalized_genre)
        THEN [st1 EXCEPT
                !.book_genres = Append(@, [book_id |-> book_id,
                                           genre_id |-> IdByName(st1.genres, normalized_genre.v)])]
        ELSE st1

RECURSIVE G_process_genres(_, _, _, _)
G_process_genres(book, book_id, st, i) ==
    IF i > Len(book.subject) THEN st
    ELSE G_process_genres(book, book_id, G_genre_step(book, book_id, st, i), i + 1)

\* One iteration of "for book in raw_books" of
\* GoogleBooksParser.get_all_structured_data
G_structure_book(book, src, st) ==
    LET book_id == Uuid4(st.next_uuid)
        st1 == [st EXCEPT
                   !.next_uuid = book_id,
                   !.books = Append(@, [id |-> book_id, title |-> book.title,
                                        src |-> src])]
        st2 == G_process_authors(book, book_id, st1, 1)
    IN  G_process_genres(book, book_id, st2, 1)

\* The loop state written back to the variables
Store(st) ==
    /\ authors' = st.authors
    /\ genres' = st.genres
    /\ books' = st.books
    /\ book_authors' = st.book_authors
    /\ book_genres' = st.book_genres
    /\ seen_authors' = st.seen_authors
    /\ seen_genres' = st.seen_genres
    /\ next_uuid' = st.next_uuid

\* OpenLibraryParser._structure_data, one record of the batch
OLStructureRecord ==
    /\ n_parser = "openlib"
    /\ n_status = "running"
    /\ n_i < Len(raw_books)
    /\ LET st == OL_structure_book(raw_books[n_i + 1], n_i + 1, LoopState)
       IN  /\ Store(st)
           /\ n_status' = IF st.raised = "none" THEN "running" ELSE "raised"
    /\ n_i' = n_i + 1
    /\ UNCHANGED <<n_parser, raw_books, hvars, tvars, rvars, gvars>>

\* GoogleBooksParser.get_all_structured_data, one record of the batch
GStructureRecord ==
    /\ n_parser = "google"
    /\ n_status = "running"
    /\ n_i < Len(raw_books)
    /\ Store(G_structure_book(raw_books[n_i + 1], n_i + 1, LoopState))
    /\ n_i' = n_i + 1
    /\ UNCHANGED <<n_parser, raw_books, n_status, hvars, tvars, rvars, gvars>>

\* return authors, genres, books, book_authors, book_genres
StructureReturn ==
    /\ n_status = "running"
    /\ n_i = Len(raw_books)
    /\ n_status' = "returned"
    /\ UNCHANGED <<n_parser, raw_books, n_i, authors, genres, books, book_authors,
                   book_genres, seen_authors, seen_genres, next_uuid, hvars, tvars, rvars, gvars>>

NormNext == OLStructureRecord \/ GStructureRecord \/ StructureReturn

\* Input batches: every batch whose size (records plus list entries) is at
\* most MaxEntries.
MaxEntries == 4

S_T == <<"T">>
S_K == <<"O","L","1","A">>
S_sf_lower == <<"s","f">>
S_Art == <<"A","r","t">>
Titles == {NoneV, StrV(<<>>), StrV(S_T)}
AuthorNames == {"A", "B", ""}
SubjectStrings == {StrV(S_Sf), StrV(S_sf_lower), StrV(S_Art), StrV(<<" ", " ">>)}

\* author_key of a record with n names: missing when there are no names,
\* else one key per name or one key short (_parse_book_item fills in
\* doc.get('author_key', [])).  Google Books records have no author_key.
AuthorKeyChoices(parser, n) ==
    IF parser = "google" \/ n = 0 THEN {NoneV}
    ELSE {ListV([j \in 1..n |-> StrV(S_K)]), ListV([j \in 1..(n - 1) |-> StrV(S_K)])}

\* records with w list entries
RawRecords(parser, w) ==
    UNION {
        {[title |-> t, author_name |-> a, author_key |-> k, subject |-> sj] :
            t \in Titles, a \in [1..n -> AuthorNames],
            k \in AuthorKeyChoices(parser, n), sj \in [1..(w - n) -> SubjectStrings]}
        : n \in 0..w}

\* len(raw_books) plus the lengths of the records' lists
RECURSIVE BatchSize(_)
BatchSize(batch) ==
    IF batch = <<>> THEN 0
    ELSE 1 + Len(batch[1].author_name) + Len(batch[1].subject) + BatchSize(Tail(batch))

NormInit ==
    /\ HeurIdle /\ TransIdle /\ RouteIdle /\ SessIdle
    /\ n_parser \in {"openlib", "google"}
    /\ \E n \in 0..MaxEntries :
          raw_books \in [1..n -> UNION {RawRecords(n_parser, w) : w \in 0..(MaxEntries - n)}]
    /\ BatchSize(raw_books) <= MaxEntries
    /\ n_i = 0 /\ n_status = "running"
    /\ authors = <<>> /\ genres = <<>> /\ books = <<>>
    /\ book_authors = <<>> /\ book_genres = <<>>
    /\ seen_authors = {} /\ seen_genres = {} /\ next_uuid = 0

-----------------------------------------------------------------------------
\* The heuristics called on their own (SpecHeur): h_fn is the function,
\* h_arg its argument, h_ret what the call returned.

MaxPages == 505
MaxPad == 1
MaxBlank == 2

PageInputs == {NoneV} \cup {IntV(p) : p \in (0 - 2)..MaxPages}

\* k spaces
Spaces(k) == [i \in 1..k |-> " "]
Padded(s) == {Spaces(l) \o s \o Spaces(r) : l \in 0..MaxPad, r \in 0..MaxPad}
CaseVariants(s) == {s, StrLower(s), StrUpper(s), StrTitle(s)}
Variants(s) == UNION {Padded(c) : c \in CaseVariants(s)}

\* the example inputs of the synonym table, as users write them
S_SciFi_hyphen == <<"S","c","i","-","F","i">>
S_Mystery_and_Suspense_Fiction ==
    S_Mystery \o <<" ","a","n","d"," ","S","u","s","p","e","n","s","e",
                   " ","F","i","c","t","i","o","n">>
S_Art_History == <<"A","r","t","/","H","i","s","t","o","r","y">>
S_Histories == <<"h","i","s","t","o","r","i","e","s">>
S_Arts_and_Crafts == <<"A","r","t","s"," ","&"," ","C","r","a","f","t","s">>

SynonymInputs == {S_SciFi_hyphen, S_Sci_Fi, S_Sf, S_Fantasy_Fiction,
                  S_Mystery_and_Suspense_Fiction}
OtherGenreInputs == {S_nonfiction, S_fiction, S_Art_History, S_Histories,
                     S_Arts_and_Crafts, S_Science_Fiction, S_Fantasy}
BlankStrings == UNION {[1..n -> Whitespace] : n \in 0..MaxBlank}
IsBlank(x) == x.tag = "str" /\ \A i \in 1..Len(x.v) : x.v[i] \in Whitespace

GenreInputs ==
    {NoneV} \cup {StrV(b) : b \in BlankStrings}
            \cup {StrV(v) : v \in UNION {Variants(g) : g \in SynonymInputs \cup OtherGenreInputs}}

\* date strings: year, year-month and year-month-day pieces, and junk
S_2020 == <<"2","0","2","0">>
S_1999 == <<"1","9","9","9">>
S_0001 == <<"0","0","0","1">>
S_0000 == <<"0","0","0","0">>
S_not_a_date == <<"n","o","t","-","a","-","d","a","t","e">>
YearParts == {S_2020, S_1999, S_0001, S_0000, <<"2","0","2">>, <<"2","0","2","0","0">>}
MonthParts == {<<"0","5">>, <<"5">>, <<"1","2">>, <<"1","3">>, <<"0","0">>, <<"0","2">>}
DayParts == {<<"1","7">>, <<"7">>, <<"0","7">>, <<"2","8">>, <<"2","9">>, <<"3","0">>,
             <<"3","1">>, <<"3","2">>, <<"0","0">>, <<" ","7">>}
JoinDate(parts) ==
    IF Len(parts) = 1 THEN parts[1]
    ELSE IF Len(parts) = 2 THEN parts[1] \o <<"-">> \o parts[2]
    ELSE parts[1] \o <<"-">> \o parts[2] \o <<"-">> \o parts[3]
JunkDates == {<<>>, S_not_a_date, S_2020 \o <<"-">>, S_2020 \o <<"/","0","5">>,
              <<" ">> \o S_2020, S_2020 \o <<" ">>, S_2020 \o <<"-","0","5","-">>,
              S_2020 \o <<"-","0","5","-","1","7","T">>}
DateInputs ==
    {NoneV, IntV(2020), IntV(0)}
    \cup {StrV(j) : j \in JunkDates}
    \cup {StrV(JoinDate(<<y>>)) : y \in YearParts}
    \cup {StrV(JoinDate(<<y, m>>)) : y \in YearParts, m \in MonthParts}
    \cup {StrV(JoinDate(<<y, m, d>>)) : y \in YearParts, m \in MonthParts, d \in DayParts}

\* subject lists for _get_age_rating: none, empty, and up to MaxSubjects
\* subjects with one keyword, several, or none, in mixed case
MaxSubjects == 3
AgeSubjects ==
    {StrV(x) : x \in {<<"J","u","v","e","n","i","l","e"," ","f","i","c","t","i","o","n">>,
                       <<"C","h","i","l","d","r","e","n","'","s"," ","s","t","o","r","i","e","s">>,
                       <<"Y","o","u","n","g"," ","A","d","u","l","t">>,
                       <<"T","E","E","N">>,
                       <<"A","d","u","l","t">>,
                       <<"A","d","u","l","t","h","o","o","d">>,
                       <<"A","r","t">>,
                       <<"T","e","e","n","a","g","e"," ","c","h","i","l","d","r","e","n">>}}
AgeInputs ==
    {NoneV} \cup {ListV(l) : l \in UNION {[1..n -> AgeSubjects] : n \in 0..MaxSubjects}}

HeurInit ==
    /\ NormIdle /\ TransIdle /\ RouteIdle /\ SessIdle
    /\ h_ret = Pending
    /\ \/ h_fn \in {"OL_get_size_description", "G_get_size_description"} /\ h_arg \in PageInputs
       \/ h_fn \in {"OL_normalize_genre", "G_normalize_genre"} /\ h_arg \in GenreInputs
       \/ h_fn = "G_extract_year" /\ h_arg \in DateInputs
       \/ h_fn = "OL_get_age_rating" /\ h_arg \in AgeInputs

Call(fn, ret) ==
    /\ h_fn = fn
    /\ h_ret = Pending
    /\ h_ret' = ret
    /\ UNCHANGED <<h_fn, h_arg, nvars, tvars, rvars, gvars>>

CallOLSize == Call("OL_get_size_description", OL_get_size_description(h_arg))
CallGSize == Call("G_get_size_description", G_get_size_description(h_arg))
CallOLGenre == Call("OL_normalize_genre", OL_normalize_genre(h_arg))
CallGGenre == Call("G_normalize_genre", G_normalize_genre(h_arg))
CallGYear == Call("G_extract_year", G_extract_year(h_arg))
CallOLAge == Call("OL_get_age_rating", OL_get_age_rating(h_arg))

HeurNext ==
    CallOLSize \/ CallGSize \/ CallOLGenre \/ CallGGenre \/ CallGYear \/ CallOLAge

SpecHeur == HeurInit /\ [][HeurNext]_vars

SpecNorm == NormInit /\ [][NormNext]_vars

-----------------------------------------------------------------------------
\* Tree translators: TranslationManager.translate (translation/translator.py)
\* and DataProcessor.process (utils/data_processor.py).
\*
\* A node of the input is named by its path, the sequence of child positions
\* from the root.  asyncio.gather runs each child's translate coroutine as a
\* task, so the tasks form a tree of the input's shape.  t_task is that tree:
\* a task is [st, res, kids] where st is
\*   new    not created yet        ready  created, not yet run
\*   call   awaiting translate_text
\*   wait   awaiting the gather of its children
\*   sleep  in asyncio.sleep between two chunks
\*   done   returned, res is the value returned
\* t_inflight are the translate_text calls not yet answered, oldest first;
\* t_calls every call made, in the order made; t_order the calls answered, in
\* the order answered.

ChunkThreshold == 1000
ChunkSize == 500

TranslationManagerImpl == "TranslationManager"
DataProcessorImpl == "DataProcessor"

NChildren(v) ==
    IF v.tag = "list" THEN Len(v.v) ELSE IF v.tag = "dict" THEN Len(v.keys) ELSE 0
Child(v, k) == IF v.tag = "list" THEN v.v[k] ELSE v.vals[k]

\* the value at a path
RECURSIVE At(_, _)
At(v, path) == IF path = <<>> THEN v ELSE At(Child(v, path[1]), Tail(path))

Min(a, b) == IF a < b THEN a ELSE b

\* the concatenation of seqs[lo], ..., seqs[hi]
RECURSIVE Flatten(_, _, _)
Flatten(seqs, lo, hi) ==
    IF lo > hi THEN <<>>
    ELSE IF lo = hi THEN seqs[lo]
    ELSE LET mid == (lo + hi) \div 2
         IN  Flatten(seqs, lo, mid) \o Flatten(seqs, mid + 1, hi)

Task(st, res, kids) == [st |-> st, res |-> res, kids |-> kids]

\* the tasks of a value before any of them is created
RECURSIVE NewTasks(_)
NewTasks(v) == Task("new", Pending, [k \in 1..NChildren(v) |-> NewTasks(Child(v, k))])

RECURSIVE TaskAt(_, _)
TaskAt(t, path) == IF path = <<>> THEN t ELSE TaskAt(t.kids[path[1]], Tail(path))

\* the task tree with the task at path replaced
RECURSIVE SetTask(_, _, _)
SetTask(t, path, task) ==
    IF path = <<>> THEN task
    ELSE [t EXCEPT !.kids[path[1]] = SetTask(@, Tail(path), task)]

\* dict.get(key): None when the key is missing
DictGet(d, key) ==
    IF \E k \in 1..Len(d.keys) : d.keys[k] = key
    THEN d.vals[CHOOSE k \in 1..Len(d.keys) : d.keys[k] = key]
    ELSE NoneV

\* translate_text of the translator in use: an identity translator
\* (NullTranslator) returns the text; a translating engine returns another
\* text, written lang:text here.
TranslateText(translator, text, lang) ==
    IF translator = "null" THEN text ELSE StrV(<<lang, ":">> \o text.v)

\* Mutant of Exempt: the is_russian flag is not looked at
Exempt_never(impl, data, target_lang) == FALSE

\* if data.get('is_russian') and target_lang == 'ru': return data
\* (TranslationManager._translate_dict only)
Exempt(impl, data, target_lang) ==
    /\ impl = TranslationManagerImpl
    /\ Truthy(DictGet(data, "is_russian"))
    /\ target_lang = "ru"

\* len(data) > 1000
IsLarge(data) == data.tag = "list" /\ Len(data.v) > ChunkThreshold

\* results and loop variable i of _process_large_list while it runs
Partial(i, results) == [tag |-> "partial", i |-> i, v |-> results]

\* State of a task after its first run, up to its first await or its return
FirstStep(impl, data, target_lang) ==
    CASE data.tag = "str" -> "call"
      [] data.tag = "dict" ->
            IF Exempt(impl, data, target_lang) \/ data.keys = <<>> THEN "done" ELSE "wait"
      [] data.tag = "list" -> IF data.v = <<>> THEN "done" ELSE "wait"
      [] OTHER -> "done"

\* Mutant of FirstGather: the first chunk of a large list reaches one item
\* into the second
FirstGather_overlapping(impl, data, target_lang) ==
    CASE data.tag = "dict" ->
            IF Exempt(impl, data, target_lang) THEN {} ELSE 1..Len(data.keys)
      [] data.tag = "list" ->
            IF IsLarge(data) THEN 1..(ChunkSize + 1) ELSE 1..Len(data.v)
      [] OTHER -> {}

\* Positions of the children whose tasks the first run of a task creates
FirstGather(impl, data, target_lang) ==
    CASE data.tag = "dict" ->
            IF Exempt(impl, data, target_lang) THEN {} ELSE 1..Len(data.keys)
      [] data.tag = "list" ->
            IF IsLarge(data) THEN 1..ChunkSize ELSE 1..Len(data.v)
      [] OTHER -> {}

\* Positions of the children a waiting task's gather awaits
Awaited(data, res) ==
    IF IsLarge(data) THEN (res.i + 1)..Min(res.i + ChunkSize, Len(data.v))
    ELSE 1..NChildren(data)

\* The paths of the tasks that are ready, waiting or sleeping: such a task is
\* the root or a child that a waiting task awaits
\* A task whose gather raised has returned, but the children it gathered run on.
Active == {"ready", "wait", "sleep"}
Gathering == {"wait", "failed"}
RECURSIVE ActivePaths(_, _)
ActivePaths(t, data) ==
    (IF t.st \in Active THEN {<<>>} ELSE {}) \cup
    (IF t.st \in Gathering /\ NChildren(data) > 0
     THEN UNION {{<<k>> \o q : q \in ActivePaths(t.kids[k], Child(data, k))} :
                    k \in {j \in Awaited(data, t.res) :
                              t.kids[j].st \in Active \cup Gathering}}
     ELSE {})

\* Mutant of GatherResults: the results in the order the children's calls were
\* answered (children that made no call first), not in the children's order
GatherResults_by_completion(kids, order, path, lo, hi) ==
    LET AnsweredAt(k) ==
            IF \E n \in 1..Len(order) : order[n] = path \o <<k>>
            THEN CHOOSE n \in 1..Len(order) : order[n] = path \o <<k>>
            ELSE 0
        Rank(k) == Cardinality({j \in lo..hi :
                        \/ AnsweredAt(j) < AnsweredAt(k)
                        \/ AnsweredAt(j) = AnsweredAt(k) /\ j <= k})
    IN  [n \in 1..(hi - lo + 1) |-> kids[CHOOSE k \in lo..hi : Rank(k) = n].res]

\* await asyncio.gather(*[translate(child) ...]): the children's results in
\* the order of the children
GatherResults(kids, order, path, lo, hi) ==
    [n \in 1..(hi - lo + 1) |-> kids[lo + n - 1].res]

\* Mutant of DictResult: the first key moved behind the others
DictResult_first_key_last(keys, values) ==
    IF Len(keys) < 2 THEN DictV(keys, values)
    ELSE DictV(Tail(keys) \o <<keys[1]>>, Tail(values) \o <<values[1]>>)

\* dict(zip(keys, values))
DictResult(keys, values) == DictV(keys, values)

\* One run of a ready task, up to its first await or its return; the tasks
\* below a waiting task likewise
RECURSIVE RunTasks(_, _, _, _)
RunTasks(t, data, impl, target_lang) ==
    IF t.st = "ready"
    THEN Task(FirstStep(impl, data, target_lang),
              IF FirstStep(impl, data, target_lang) = "done" THEN data
              ELSE IF IsLarge(data) THEN Partial(0, <<>>)
              ELSE Pending,
              [k \in 1..Len(t.kids) |->
                  IF k \in FirstGather(impl, data, target_lang)
                  THEN [t.kids[k] EXCEPT !.st = "ready"]
                  ELSE t.kids[k]])
    ELSE IF t.st \in Gathering /\ NChildren(data) > 0
    THEN [t EXCEPT !.kids = [k \in 1..Len(t.kids) |->
                                RunTasks(t.kids[k], Child(data, k), impl, target_lang)]]
    ELSE t

\* The paths of the ready tasks of string nodes, in the order the tasks were
\* created
RECURSIVE ReadyCalls(_, _, _)
ReadyCalls(t, data, path) ==
    IF t.st = "ready" THEN (IF data.tag = "str" THEN <<path>> ELSE <<>>)
    ELSE IF t.st \in Gathering /\ NChildren(data) > 0
    THEN Flatten([k \in 1..Len(t.kids) |->
                     ReadyCalls(t.kids[k], Child(data, k), path \o <<k>>)],
                 1, Len(t.kids))
    ELSE <<>>

\* One turn of the event loop: every ready task runs up to its first await;
\* a string's task calls translate_text.
RunReady ==
    /\ t_status = "running"
    /\ {p \in ActivePaths(t_task, t_in) : TaskAt(t_task, p).st = "ready"} # {}
    /\ t_task' = RunTasks(t_task, t_in, t_impl, t_lang)
    /\ t_inflight' = t_inflight \o ReadyCalls(t_task, t_in, <<>>)
    /\ t_calls' = t_calls \o ReadyCalls(t_task, t_in, <<>>)
    /\ UNCHANGED <<t_impl, t_translator, t_lang, t_sched, t_in, t_order, t_status, t_out,
                   t_fault, hvars, nvars, rvars, gvars>>

\* Positions in the queue of n calls in flight of those that may be answered
\* next
Answerable(sched, n) ==
    CASE sched = "fifo" -> {1} \cap 1..n
      [] sched = "lifo" -> {n} \cap 1..n
      [] OTHER -> 1..n

\* The translator answers one call in flight: any of them, or, for the long
\* inputs, the oldest (fifo) or the newest (lifo).
Complete ==
    /\ t_status = "running"
    /\ \E k \in Answerable(t_sched, Len(t_inflight)) :
          /\ t_inflight[k] \notin t_fault
          /\ t_task' = SetTask(t_task, t_inflight[k],
                               Task("done",
                                    TranslateText(t_translator, At(t_in, t_inflight[k]), t_lang),
                                    <<>>))
          /\ t_order' = Append(t_order, t_inflight[k])
          /\ t_inflight' = SubSeq(t_inflight, 1, k - 1)
                            \o SubSeq(t_inflight, k + 1, Len(t_inflight))
    /\ UNCHANGED <<t_impl, t_translator, t_lang, t_sched, t_in, t_calls, t_status, t_out,
                   t_fault, hvars, nvars, rvars, gvars>>

\* A gather is complete: the awaiting _translate_dict / _translate_list /
\* _process_large_list (or its DataProcessor twin) goes on.
Resume ==
    /\ t_status = "running"
    /\ \E p \in ActivePaths(t_task, t_in) :
          LET t == TaskAt(t_task, p)
              data == At(t_in, p)
              lo == IF IsLarge(data) THEN t.res.i + 1 ELSE 1
              hi == IF IsLarge(data) THEN Min(t.res.i + ChunkSize, Len(data.v))
                    ELSE NChildren(data)
              values == GatherResults(t.kids, t_order, p, lo, hi)
          IN  /\ t.st = "wait"
              /\ {k \in Awaited(data, t.res) : t.kids[k].st # "done"} = {}
              /\ t_task' = SetTask(t_task, p,
                    IF IsLarge(data)
                    THEN [t EXCEPT !.st = "sleep", !.res = Partial(@.i, @.v \o values)]
                    ELSE [t EXCEPT !.st = "done",
                                   !.res = IF data.tag = "dict"
                                           THEN DictResult(data.keys, values)
                                           ELSE ListV(values)])
    /\ UNCHANGED <<t_impl, t_translator, t_lang, t_sched, t_in, t_inflight, t_calls,
                   t_order, t_status, t_out, t_fault, hvars, nvars, rvars, gvars>>

\* asyncio.sleep(0.001) of _process_large_list is over: the next chunk, or
\* return results
Wake ==
    /\ t_status = "running"
    /\ \E p \in ActivePaths(t_task, t_in) :
          LET t == TaskAt(t_task, p)
              data == At(t_in, p)
              i == t.res.i + ChunkSize
          IN  /\ t.st = "sleep"
              /\ t_task' = SetTask(t_task, p,
                    IF i < Len(data.v)
                    THEN Task("wait", Partial(i, t.res.v),
                              [k \in 1..Len(t.kids) |->
                                  IF k \in (i + 1)..Min(i + ChunkSize, Len(data.v))
                                  THEN [t.kids[k] EXCEPT !.st = "ready"]
                                  ELSE t.kids[k]])
                    ELSE [t EXCEPT !.st = "done", !.res = ListV(@.v)])
    /\ UNCHANGED <<t_impl, t_translator, t_lang, t_sched, t_in, t_inflight, t_calls,
                   t_order, t_status, t_out, t_fault, hvars, nvars, rvars, gvars>>

\* The outermost translate / process call returns
TranslateReturn ==
    /\ t_status = "running"
    /\ t_task.st = "done"
    /\ t_status' = "returned"
    /\ t_out' = t_task.res
    /\ UNCHANGED <<t_impl, t_translator, t_lang, t_sched, t_in, t_task, t_inflight,
                   t_calls, t_order, t_fault, hvars, nvars, rvars, gvars>>

TransNext == RunReady \/ Complete \/ Resume \/ Wake \/ TranslateReturn

\* Inputs: every value of at most MaxNodes nodes built from two texts, a
\* number, lists and dicts (keys a, b and the is_russian flag), translated with
\* the calls answered in any order; and long flat lists of distinct texts,
\* answered oldest first or newest first.
MaxNodes == 4

S_x == <<"x">>
S_y == <<"y">>
TextLeaves == {StrV(S_x), StrV(S_y)}
OtherLeaves == {IntV(7)}
OrdinaryKeys == {"a", "b"}
FlagValues == {BoolV(TRUE), BoolV(FALSE)}
LongLengths == {1001, 1200}
\* a length above the chunk size that _translate_list does not chunk
UnchunkedLengths == {ChunkSize + 1}

RECURSIVE Trees(_)
RECURSIVE ChildSeqs(_)
RECURSIVE EntrySeqs(_, _)
\* values of exactly n nodes
Trees(n) ==
    IF n = 1 THEN TextLeaves \cup OtherLeaves \cup {ListV(<<>>), DictV(<<>>, <<>>)}
    ELSE {ListV(cs) : cs \in ChildSeqs(n - 1)}
         \cup {DictV([k \in 1..Len(es) |-> es[k][1]], [k \in 1..Len(es) |-> es[k][2]]) :
                  es \in EntrySeqs(n - 1, OrdinaryKeys \cup {"is_russian"})}
\* non-empty sequences of values of n nodes in all
ChildSeqs(n) ==
    UNION {{<<c>> \o rest : c \in Trees(m),
                            rest \in (IF m = n THEN {<<>>} ELSE ChildSeqs(n - m))}
           : m \in 1..n}
\* non-empty sequences of dict entries <<key, value>> of n nodes in all, with
\* distinct keys among those given; is_russian holds a flag value
EntrySeqs(n, keys) ==
    UNION {{<<<<key, c>>>> \o rest :
                c \in (IF key = "is_russian" THEN (IF m = 1 THEN FlagValues ELSE {})
                       ELSE Trees(m)),
                rest \in (IF m = n THEN {<<>>} ELSE EntrySeqs(n - m, keys \ {key}))}
           : key \in keys, m \in 1..n}

RECURSIVE IntDigits(_)
IntDigits(n) ==
    IF n < 10 THEN <<Digits[n + 1]>> ELSE IntDigits(n \div 10) \o <<Digits[(n % 10) + 1]>>
\* ["1", "2", ..., str(n)]
LongList(n) == ListV([k \in 1..n |-> StrV(IntDigits(k))])

\* a book record as the parsers emit it, cut down to the is_russian flag and
\* one text field
FlaggedBook(flag, text) == DictV(<<"is_russian", "a">>, <<flag, StrV(text)>>)

\* flagged and unflagged books side by side, and a flagged book two levels down
FlaggedInputs ==
    {ListV(<<FlaggedBook(f, S_x), FlaggedBook(g, S_y)>>) : f \in FlagValues, g \in FlagValues}
    \cup {DictV(<<"b", "a">>, <<ListV(<<FlaggedBook(f, S_x)>>), StrV(S_y)>>) : f \in FlagValues}

\* a book record cut down to its language code and one text field
S_en == <<"e", "n">>
LanguageInputs ==
    {DictV(<<"language", "title">>, <<StrV(S_en), StrV(S_x)>>),
     ListV(<<DictV(<<"title", "language">>, <<StrV(S_y), StrV(S_en)>>)>>)}

\* the assembled result of a search: one author, one genre, one book (flagged
\* Russian or not) and the two link rows that join them
S_a1 == <<"a", "1">>
S_g1 == <<"g", "1">>
S_b1 == <<"b", "1">>
SearchResult(flag) ==
    DictV(<<"authors", "genres", "books", "relationships">>,
          <<ListV(<<DictV(<<"id", "name">>, <<StrV(S_a1), StrV(S_y)>>)>>),
            ListV(<<DictV(<<"id", "name">>, <<StrV(S_g1), StrV(S_y)>>)>>),
            ListV(<<DictV(<<"id", "title", "is_russian">>, <<StrV(S_b1), StrV(S_x), flag>>)>>),
            DictV(<<"book_authors", "book_genres">>,
                  <<ListV(<<DictV(<<"book_id", "author_id">>, <<StrV(S_b1), StrV(S_a1)>>)>>),
                    ListV(<<DictV(<<"book_id", "genre_id">>, <<StrV(S_b1), StrV(S_g1)>>)>>)>>)>>)
SearchResults == {SearchResult(f) : f \in FlagValues}

TransInit ==
    /\ HeurIdle /\ NormIdle /\ RouteIdle /\ SessIdle
    /\ t_translator \in {"null", "engine"}
    /\ \/ /\ t_in \in UNION {Trees(n) : n \in 1..MaxNodes}
                      \cup FlaggedInputs \cup LanguageInputs
          /\ t_sched = "any"
          /\ \/ t_impl = TranslationManagerImpl /\ t_lang \in {"ru", "en"}
             \/ t_impl = DataProcessorImpl /\ t_lang = "ru"
       \/ /\ t_in \in {LongList(n) : n \in LongLengths \cup UnchunkedLengths}
                      \cup SearchResults
          /\ t_sched \in {"fifo", "lifo"}
          /\ t_impl \in {TranslationManagerImpl, DataProcessorImpl}
          /\ t_lang = "ru"
    /\ t_task = [NewTasks(t_in) EXCEPT !.st = "ready"]
    /\ t_inflight = <<>> /\ t_calls = <<>> /\ t_order = <<>>
    /\ t_status = "running" /\ t_out = Pending /\ t_fault = {}

SpecTrans == TransInit /\ [][TransNext]_vars

\* Failing translate_text calls.  t_fault holds the paths of the strings
\* translate_text raises on.  asyncio.gather (return_exceptions left False)
\* hands the first exception of a child to the awaiting coroutine at once and
\* leaves the other children running.

\* Mutant of CallRaised: the call returns the text untranslated instead of
\* raising
CallRaised_swallowed(text) == Task("done", text, <<>>)

\* the task of a string whose translate_text call raised
CallRaised(text) == Task("failed", Pending, <<>>)

\* translate_text raises for one call in flight
Fail ==
    /\ t_status = "running"
    /\ \E k \in Answerable(t_sched, Len(t_inflight)) :
          /\ t_inflight[k] \in t_fault
          /\ t_task' = SetTask(t_task, t_inflight[k], CallRaised(At(t_in, t_inflight[k])))
          /\ t_order' = Append(t_order, t_inflight[k])
          /\ t_inflight' = SubSeq(t_inflight, 1, k - 1)
                            \o SubSeq(t_inflight, k + 1, Len(t_inflight))
    /\ UNCHANGED <<t_impl, t_translator, t_lang, t_sched, t_in, t_calls, t_status, t_out,
                   t_fault, hvars, nvars, rvars, gvars>>

\* a child of the gather has raised
GatherRaised(kids, awaited) == {k \in awaited : kids[k].st = "failed"} # {}

\* The gather a task awaits raises: the exception leaves _translate_dict /
\* _translate_list / _process_large_list and the translate call of the task.
Propagate ==
    /\ t_status = "running"
    /\ \E p \in ActivePaths(t_task, t_in) :
          LET t == TaskAt(t_task, p)
          IN  /\ t.st = "wait"
              /\ GatherRaised(t.kids, Awaited(At(t_in, p), t.res))
              /\ t_task' = SetTask(t_task, p, [t EXCEPT !.st = "failed"])
    /\ UNCHANGED <<t_impl, t_translator, t_lang, t_sched, t_in, t_inflight, t_calls,
                   t_order, t_status, t_out, t_fault, hvars, nvars, rvars, gvars>>

\* The outermost translate / process call raises
TranslateRaise ==
    /\ t_status = "running"
    /\ t_task.st = "failed"
    /\ t_status' = "raised"
    /\ t_out' = Raise("Exception")
    /\ UNCHANGED <<t_impl, t_translator, t_lang, t_sched, t_in, t_task, t_inflight,
                   t_calls, t_order, t_fault, hvars, nvars, rvars, gvars>>

FailNext == TransNext \/ Fail \/ Propagate \/ TranslateRaise

\* the paths of the strings of a value
StrPaths(data) ==
    LET RECURSIVE Below(_, _)
        Below(v, path) ==
            IF v.tag = "str" THEN {path}
            ELSE UNION {Below(Child(v, k), path \o <<k>>) : k \in 1..NChildren(v)}
    IN  Below(data, <<>>)

\* Inputs: the values of at most MaxNodes nodes with one string translate_text
\* raises on, and a list of 1001 strings with the failing one in the first,
\* the second or the last chunk.
LongFaults == {<<1>>, <<ChunkSize>>, <<ChunkSize + 1>>, <<2 * ChunkSize + 1>>}

FailInit ==
    /\ HeurIdle /\ NormIdle /\ RouteIdle /\ SessIdle
    /\ t_translator = "engine"
    /\ \/ /\ t_in \in UNION {Trees(n) : n \in 1..MaxNodes}
          /\ t_sched = "any"
          /\ \/ t_impl = TranslationManagerImpl /\ t_lang \in {"ru", "en"}
             \/ t_impl = DataProcessorImpl /\ t_lang = "ru"
          /\ \E p \in StrPaths(t_in) : t_fault = {p}
       \/ /\ t_in = LongList(2 * ChunkSize + 1)
          /\ t_sched \in {"fifo", "lifo"}
          /\ t_impl \in {TranslationManagerImpl, DataProcessorImpl}
          /\ t_lang = "ru"
          /\ \E p \in LongFaults : t_fault = {p}
    /\ t_task = [NewTasks(t_in) EXCEPT !.st = "ready"]
    /\ t_inflight = <<>> /\ t_calls = <<>> /\ t_order = <<>>
    /\ t_status = "running" /\ t_out = Pending

SpecFail == FailInit /\ [][FailNext]_vars

-----------------------------------------------------------------------------
\* Route wrapper: async_route (utils/async_utils.py) around a handler that
\* awaits TranslationManager.translate (api/open_library.py line 59,
\* api/google_books.py line 63).
\*
\* wrapper runs the handler as a task under asyncio.wait_for.  When the
\* timeout elapses wait_for cancels the task; cancelling a task cancels the
\* future it awaits, and cancelling a gather cancels every child that is not
\* done, so the request reaches every task of the translate call in the same
\* step.  r_status is the wrapper's position, r_response what it returned.

\* Mutant of CancelTasks: only the task at the top is cancelled, the children
\* it gathered are left running
CancelTasks_shallow(t) ==
    IF t.st \in Active \cup {"call"} THEN [t EXCEPT !.st = "cancelled"] ELSE t

\* task.cancel() on a task and, through the gather it awaits, on the tasks
\* below it that are not done
RECURSIVE CancelTasks(_)
CancelTasks(t) ==
    IF t.st \in Active \cup {"call"}
    THEN [t EXCEPT !.st = "cancelled",
                   !.kids = [k \in 1..Len(t.kids) |-> CancelTasks(t.kids[k])]]
    ELSE t

\* the translate_text calls of a queue that are still awaited
StillAwaited(inflight, tasks) ==
    LET Awaiting(p) == TaskAt(tasks, p).st = "call"
    IN  SelectSeq(inflight, Awaiting)

Response(code, data) == [code |-> code, data |-> data]

\* REQUEST_TIMEOUT elapses before the handler has finished: wait_for cancels
\* the handler task, which is awaiting translate or the steps after it
Timeout ==
    /\ r_status = "running"
    /\ t_status \in {"running", "returned"}
    /\ t_task' = CancelTasks(t_task)
    /\ t_inflight' = StillAwaited(t_inflight, CancelTasks(t_task))
    /\ t_status' = "cancelled"
    /\ r_status' = "timeout"
    /\ UNCHANGED <<t_impl, t_translator, t_lang, t_sched, t_in, t_calls, t_order, t_out,
                   t_fault, r_response, hvars, nvars, gvars>>

\* except asyncio.TimeoutError: task.cancel(); return jsonify(error), 504
TimeoutResponse ==
    /\ r_status = "timeout"
    /\ r_status' = "responded"
    /\ r_response' = Response(504, "Request timeout")
    /\ UNCHANGED <<tvars, hvars, nvars, gvars>>

\* translate has returned and the handler returns jsonify(... "data": data)
HandlerReturn ==
    /\ r_status = "running"
    /\ t_status = "returned"
    /\ r_status' = "responded"
    /\ r_response' = Response(200, t_out)
    /\ UNCHANGED <<tvars, hvars, nvars, gvars>>

RouteNext ==
    \/ RunReady \/ Complete \/ Resume \/ Wake \/ TranslateReturn
    \/ Timeout \/ TimeoutResponse \/ HandlerReturn

\* Inputs: a request for lang=ru whose normalized data is any value of at
\* most MaxNodes nodes, or a list of 1001 strings.
RouteInit ==
    /\ HeurIdle /\ NormIdle /\ SessIdle
    /\ t_translator = "engine"
    /\ t_impl = TranslationManagerImpl
    /\ t_lang = "ru"
    /\ \/ /\ t_in \in UNION {Trees(n) : n \in 1..MaxNodes}
          /\ t_sched = "any"
       \/ /\ t_in = LongList(2 * ChunkSize + 1)
          /\ t_sched = "fifo"
    /\ t_task = [NewTasks(t_in) EXCEPT !.st = "ready"]
    /\ t_inflight = <<>> /\ t_calls = <<>> /\ t_order = <<>>
    /\ t_status = "running" /\ t_out = Pending /\ t_fault = {}
    /\ r_status = "running" /\ r_response = Pending

SpecRoute == RouteInit /\ [][RouteNext]_vars

\* ---------------------------------------------------------------------------
\* The shared parser of the /search/google routes (api/google_books.py,
\* GoogleBooksParser.initialize / close / _search_batch)
\* ---------------------------------------------------------------------------

\* Requests handled at the same time, each in a thread of its own with an
\* event loop of its own, and the batches one search may fetch.
MaxRequests == 2
MaxBatches == 2

\* a session (its owner, and the calls of close() it has received) is closed
\* once close() has been called on it
Closed(s) == g_sessions[s].closes > 0

\* a request: where its handler is, whether it names an author or a title,
\* the session its initialize() created, the session its fetch in progress
\* uses, the batches it has fetched and the fetches that failed
NewRequest(valid) ==
    [pc |-> "new", valid |-> valid, mine |-> 0, using |-> 0, batches |-> 0, failed |-> 0]

\* initialize(): self.session = aiohttp.ClientSession()
Initialize(r) ==
    /\ g_req[r].pc = "new"
    /\ g_sessions' = Append(g_sessions, [owner |-> r, closes |-> 0])
    /\ g_session' = Len(g_sessions) + 1
    /\ g_req' = [g_req EXCEPT ![r].pc = "validating", ![r].mine = Len(g_sessions) + 1]
    /\ UNCHANGED <<hvars, nvars, tvars, rvars>>

\* neither author nor title: 400, and on to the finally clause
Validate(r) ==
    /\ g_req[r].pc = "validating"
    /\ g_req' = [g_req EXCEPT ![r].pc = IF g_req[r].valid THEN "searching" ELSE "finishing"]
    /\ UNCHANGED <<g_session, g_sessions, hvars, nvars, tvars, rvars>>

\* _search_batch: self.session.get(...) on whatever parser.session is now; on
\* a closed session it raises, the batch is [] and search_books stops
FetchStart(r) ==
    /\ g_req[r].pc = "searching"
    /\ g_req' = IF Closed(g_session)
                THEN [g_req EXCEPT ![r].pc = "finishing", ![r].failed = @ + 1]
                ELSE [g_req EXCEPT ![r].pc = "fetching", ![r].using = g_session]
    /\ UNCHANGED <<g_session, g_sessions, hvars, nvars, tvars, rvars>>

\* the response of the fetch: a full batch (search_books sleeps and fetches
\* again), a short one (it stops), or, the session having been closed under
\* the fetch, possibly an error (batch [], it stops)
FetchEnd(r) ==
    /\ g_req[r].pc = "fetching"
    /\ \E outcome \in {"full", "short"} \cup
                      (IF Closed(g_req[r].using) THEN {"error"} ELSE {}) :
          /\ outcome = "full" => g_req[r].batches + 1 < MaxBatches
          /\ g_req' = [g_req EXCEPT
                ![r].pc = IF outcome = "full" THEN "searching" ELSE "finishing",
                ![r].using = 0,
                ![r].batches = IF outcome = "error" THEN @ ELSE @ + 1,
                ![r].failed = IF outcome = "error" THEN @ + 1 ELSE @]
    /\ UNCHANGED <<g_session, g_sessions, hvars, nvars, tvars, rvars>>

\* finally: await parser.close(): if self.session: await self.session.close()
Close(r) ==
    /\ g_req[r].pc = "finishing"
    /\ g_sessions' = IF g_session # 0
                     THEN [g_sessions EXCEPT ![g_session].closes = @ + 1]
                     ELSE g_sessions
    /\ g_req' = [g_req EXCEPT ![r].pc = "done"]
    /\ UNCHANGED <<g_session, hvars, nvars, tvars, rvars>>

SessNext ==
    \E r \in 1..MaxRequests :
        Initialize(r) \/ Validate(r) \/ FetchStart(r) \/ FetchEnd(r) \/ Close(r)

\* Inputs: MaxRequests requests have arrived, each with or without an author
\* or a title; the parser was constructed at import with no session.
SessInit ==
    /\ HeurIdle /\ NormIdle /\ TransIdle /\ RouteIdle
    /\ g_session = 0
    /\ g_sessions = <<>>
    /\ g_req \in [1..MaxRequests -> {NewRequest(v) : v \in BOOLEAN}]

SpecSess == SessInit /\ [][SessNext]_vars

-----------------------------------------------------------------------------
\* Properties of the normalizers (SpecNorm)

Range(seq) == {seq[k] : k \in 1..Len(seq)}
Distinct(seq) == \A i, j \in 1..Len(seq) : i # j => seq[i] # seq[j]
Ids(entities) == {entities[k].id : k \in 1..Len(entities)}

\* positions of the records of the batch that have a non-empty title
TitledRecords(batch) ==
    LET HasTitle(i) == Truthy(batch[i].title)
    IN  SelectSeq([i \in 1..Len(batch) |-> i], HasTitle)

\* the raw record a returned book was made from
RecordOf(book_id) ==
    raw_books[(CHOOSE b \in Range(books) : b.id = book_id).src]

\* C1: the returned books are exactly the records of the batch that have a
\* non-empty title, one book each, in input order, with distinct ids; a record
\* without a title gives no book (both normalizers).
C1_OneBookPerTitledRecord ==
    n_status = "returned" =>
        /\ [k \in 1..Len(books) |-> books[k].src] = TitledRecords(raw_books)
        /\ \A k \in 1..Len(books) : books[k].title = raw_books[books[k].src].title
        /\ Distinct([k \in 1..Len(books) |-> books[k].id])

\* C2: in a returned result no two authors have the same name, and each
\* book_authors row's author_id is the id of exactly one author, whose name is
\* listed in the row's book's record.
C2_AuthorsUniqueAndLinked ==
    n_status = "returned" =>
        /\ Distinct([k \in 1..Len(authors) |-> authors[k].name])
        /\ \A r \in Range(book_authors) :
              /\ Cardinality({k \in 1..Len(authors) : authors[k].id = r.author_id}) = 1
              /\ r.book_id \in Ids(books)
              /\ \E a \in Range(authors) :
                    /\ a.id = r.author_id
                    /\ a.name \in Range(RecordOf(r.book_id).author_name)

\* a name met again is linked to the author it already has, next to a
\* second author
C2_Witness ==
    /\ n_status = "returned"
    /\ Len(authors) = 2
    /\ \E i, j \in 1..Len(book_authors) :
          i # j /\ book_authors[i].author_id = book_authors[j].author_id

NormalizeGenre(subject) ==
    IF n_parser = "openlib" THEN OL_normalize_genre(subject) ELSE G_normalize_genre(subject)

\* C3: in a returned result every link row's book_id, author_id and genre_id is
\* the id of a returned book, author and genre; genre names are unique; each
\* book_genres row points to the genre named by the normalized form of a
\* subject of the row's book.
C3_LinksReferToEntities ==
    n_status = "returned" =>
        /\ \A r \in Range(book_authors) :
              r.book_id \in Ids(books) /\ r.author_id \in Ids(authors)
        /\ \A r \in Range(book_genres) :
              /\ r.book_id \in Ids(books)
              /\ Cardinality({k \in 1..Len(genres) : genres[k].id = r.genre_id}) = 1
              /\ \E g \in Range(genres) :
                    /\ g.id = r.genre_id
                    /\ \E subject \in Range(RecordOf(r.book_id).subject) :
                          NormalizeGenre(subject) = StrV(g.name)
        /\ Distinct([k \in 1..Len(genres) |-> genres[k].name])

\* a book with an author row and two subjects of different spelling linked
\* to the same genre
C3_Witness ==
    /\ n_status = "returned"
    /\ Len(book_authors) = 1
    /\ Len(genres) = 1
    /\ Len(book_genres) = 2
    /\ \E s1, s2 \in Range(RecordOf(book_genres[1].book_id).subject) : s1 # s2

\* C4: the link lists never contain two equal rows: a name listed twice for a
\* book (or two subjects with the same genre) gives one row.
C4_NoDuplicateLinks ==
    n_status = "returned" => Distinct(book_authors) /\ Distinct(book_genres)

\* C16: normalizing a batch never raises because of one malformed optional
\* field (an author_key list shorter than the author_name list): the call goes
\* on to the end of the batch and returns, with every titled record emitted
\* as a book.
C16_MalformedFieldTolerated ==
    /\ n_status # "raised"
    /\ n_status = "returned" =>
          \A n \in 1..Len(TitledRecords(raw_books)) :
              \E b \in 1..Len(books) : books[b].src = TitledRecords(raw_books)[n]

-----------------------------------------------------------------------------
\* Properties of the heuristics (SpecHeur)

Returned == h_ret # Pending /\ h_ret # Idle

C5_Expected(p) ==
    IF p = NoneV \/ p = IntV(0) THEN NoneV
    ELSE IF p.v < 50 THEN StrV("Very Short")
    ELSE IF 50 <= p.v /\ p.v < 150 THEN StrV("Short")
    ELSE IF 150 <= p.v /\ p.v < 300 THEN StrV("Medium")
    ELSE IF 300 <= p.v /\ p.v < 500 THEN StrV("Long")
    ELSE StrV("Very Long")

\* C5: _get_size_description of either parser returns None for None and 0 and
\* otherwise the bucket of the page count (<50 Very Short, <150 Short,
\* <300 Medium, <500 Long, else Very Long); the two parsers agree.
C5_SizeBuckets ==
    (h_fn \in {"OL_get_size_description", "G_get_size_description"} /\ Returned) =>
        /\ h_ret = C5_Expected(h_arg)
        /\ OL_get_size_description(h_arg) = G_get_size_description(h_arg)

C5_Witness ==
    /\ h_fn = "OL_get_size_description" /\ h_arg = IntV(50) /\ h_ret = StrV("Short")

\* C6: _normalize_genre returns None (not an empty string) for every empty or
\* whitespace-only input.
C6_BlankGivesNone ==
    (h_fn \in {"OL_normalize_genre", "G_normalize_genre"} /\ Returned
        /\ (h_arg = NoneV \/ IsBlank(h_arg))) => h_ret = NoneV

C7_Synonyms ==
    {<<S_SciFi_hyphen, S_Science_Fiction>>, <<S_Sci_Fi, S_Science_Fiction>>,
     <<S_Sf, S_Science_Fiction>>, <<S_Fantasy_Fiction, S_Fantasy>>,
     <<S_Mystery_and_Suspense_Fiction, S_Mystery>>}

\* C7: _normalize_genre maps "Sci-Fi", "Sci Fi" and "Sf" to "Science Fiction",
\* "Fantasy Fiction" to "Fantasy" and "Mystery and Suspense Fiction" to
\* "Mystery", whatever the letter case and the surrounding whitespace.
C7_SynonymsCollapse ==
    (h_fn = "OL_normalize_genre" /\ Returned) =>
        \A p \in C7_Synonyms :
            (h_arg.tag = "str" /\ h_arg.v \in Variants(p[1])) => h_ret = StrV(p[2])

C8_ValidYears == {<<S_2020, 2020>>, <<S_1999, 1999>>, <<S_0001, 1>>}
C8_ValidMonths == {<<"0","5">>, <<"1","2">>, <<"0","2">>}
C8_ValidDays == {<<"1","7">>, <<"0","7">>, <<"2","8">>}
C8_Unparseable ==
    {NoneV, StrV(<<>>), StrV(S_not_a_date), StrV(S_2020 \o <<"-">>),
     StrV(S_2020 \o <<"/","0","5">>), StrV(<<"2","0","2">>),
     StrV(S_2020 \o <<"-","1","3">>), StrV(S_2020 \o <<"-","0","2","-","3","0">>)}

\* C8: _extract_year returns the year of a date string in year, year-month or
\* year-month-day form, and None (never an exception) for an empty, None or
\* unparseable input.
C8_ExtractYear ==
    (h_fn = "G_extract_year" /\ Returned) =>
        /\ h_ret.tag \in {"None", "int"}
        /\ \A y \in C8_ValidYears :
              /\ h_arg = StrV(JoinDate(<<y[1]>>)) => h_ret = IntV(y[2])
              /\ \A m \in C8_ValidMonths :
                    /\ h_arg = StrV(JoinDate(<<y[1], m>>)) => h_ret = IntV(y[2])
                    /\ \A d \in C8_ValidDays :
                          h_arg = StrV(JoinDate(<<y[1], m, d>>)) => h_ret = IntV(y[2])
        /\ h_arg \in C8_Unparseable => h_ret = NoneV

C8_Witness ==
    /\ h_fn = "G_extract_year"
    /\ h_arg = StrV(S_2020 \o <<"-","0","5","-","1","7">>)
    /\ h_ret = IntV(2020)

\* the ratings the keywords of a subject stand for: juvenile and children for
\* Children, young adult and teen for Teen, adult (outside young adult) for
\* Adult
C17_Ratings(subject) ==
    LET low == StrLower(subject.v)
    IN  (IF Contains(low, S_juvenile) \/ Contains(low, S_children) THEN {"Children"} ELSE {})
        \cup (IF Contains(low, S_young_adult) \/ Contains(low, S_teen) THEN {"Teen"} ELSE {})
        \cup (IF Contains(low, S_adult) /\ ~Contains(low, S_young_adult)
              THEN {"Adult"} ELSE {})

\* C17: _get_age_rating returns None for a missing or empty subject list and
\* when no subject contains a keyword; otherwise the first subject, in list
\* order, that contains a keyword decides: Children for juvenile / children,
\* Teen for young adult / teen (young adult is Teen, not Adult), Adult for
\* adult, whatever the letter case; later subjects never override it.
C17_FirstMatchingSubject ==
    (h_fn = "OL_get_age_rating" /\ Returned) =>
        IF h_arg = NoneV THEN h_ret = NoneV
        ELSE LET matching == {i \in 1..Len(h_arg.v) : C17_Ratings(h_arg.v[i]) # {}}
             IN  IF matching = {} THEN h_ret = NoneV
                 ELSE LET first == CHOOSE i \in matching : \A j \in matching : i <= j
                      IN  /\ h_ret.tag = "str"
                          /\ h_ret.v \in C17_Ratings(h_arg.v[first])

C17_Witness ==
    /\ h_fn = "OL_get_age_rating"
    /\ h_arg = ListV(<<StrV(<<"A","r","t">>), StrV(<<"Y","o","u","n","g"," ","A","d","u","l","t">>), StrV(<<"A","d","u","l","t">>)>>)
    /\ h_ret = StrV("Teen")

-----------------------------------------------------------------------------
\* Properties of the tree translators (SpecTrans)

\* The translation of a value, leaf by leaf and position by position, with no
\* concurrency
RECURSIVE Translation(_, _, _, _)
Translation(impl, translator, target_lang, data) ==
    CASE data.tag = "str" -> TranslateText(translator, data, target_lang)
      [] data.tag = "list" ->
            ListV([k \in 1..Len(data.v) |->
                      Translation(impl, translator, target_lang, data.v[k])])
      [] data.tag = "dict" ->
            IF Exempt(impl, data, target_lang) THEN data
            ELSE DictV(data.keys,
                       [k \in 1..Len(data.keys) |->
                           Translation(impl, translator, target_lang, data.vals[k])])
      [] OTHER -> data

T(data) == Translation(t_impl, t_translator, t_lang, data)

JoinedByPosition(res, data) ==
    /\ data.tag = "dict" =>
          /\ res.tag = "dict"
          /\ res.keys = data.keys
          /\ Len(res.vals) = Len(data.vals)
          /\ \A k \in 1..Len(data.vals) : res.vals[k] = T(data.vals[k])
    /\ data.tag = "list" =>
          /\ res.tag = "list"
          /\ Len(res.v) = Len(data.v)
          /\ \A k \in 1..Len(data.v) : res.v[k] = T(data.v[k])

RECURSIVE AllJoinedByPosition(_, _)
AllJoinedByPosition(t, data) ==
    /\ (t.st = "done" /\ data.tag \in {"dict", "list"}
            /\ ~(data.tag = "dict" /\ Exempt(t_impl, data, t_lang)))
          => JoinedByPosition(t.res, data)
    /\ (t.st \in {"wait", "sleep"} /\ IsLarge(data))
          => \A k \in 1..Len(t.res.v) : t.res.v[k] = T(data.v[k])
    /\ \A k \in 1..Len(t.kids) : AllJoinedByPosition(t.kids[k], Child(data, k))

\* C10: whatever the order in which the translate_text calls are answered,
\* every mapping and sequence translated (the value returned and every one
\* nested in it) has the input's keys in the input's key order and the
\* input's positions, and at each key or position the translation of the
\* input's value at that key or position.
C10_JoinedByPosition ==
    t_status \in {"running", "returned"} =>
        /\ AllJoinedByPosition(t_task, t_in)
        /\ t_status = "returned" => t_out = T(t_in)

C10_Witness ==
    /\ t_status = "returned"
    /\ t_translator = "engine"
    /\ t_in = DictV(<<"a", "b">>, <<StrV(S_x), StrV(S_y)>>)
    /\ t_order = << <<2>>, <<1>> >>
    /\ t_out = DictV(<<"a", "b">>, <<StrV(<<t_lang, ":">> \o S_x), StrV(<<t_lang, ":">> \o S_y)>>)

\* a flat sequence of strings
FlatStrings(data) ==
    data.tag = "list" /\ \A k \in 1..Len(data.v) : data.v[k].tag = "str"

\* C11: translating a flat sequence of N strings calls translate_text exactly
\* N times, once per element and never twice for the same element (N above
\* the chunking threshold and not a multiple of the chunk size included), and
\* returns the N translations in the original order.
C11_OncePerElement ==
    (t_status \in {"running", "returned"} /\ FlatStrings(t_in)) =>
        /\ Cardinality({t_calls[n] : n \in 1..Len(t_calls)}) = Len(t_calls)
        /\ {t_calls[n] : n \in 1..Len(t_calls)} \subseteq {<<k>> : k \in 1..Len(t_in.v)}
        /\ t_status = "returned" =>
              /\ Len(t_calls) = Len(t_in.v)
              /\ t_out.tag = "list"
              /\ Len(t_out.v) = Len(t_in.v)
              /\ \A k \in 1..Len(t_in.v) :
                    t_out.v[k] = TranslateText(t_translator, t_in.v[k], t_lang)

C11_Witness ==
    /\ t_status = "returned"
    /\ FlatStrings(t_in)
    /\ Len(t_in.v) = 1200
    /\ Len(t_calls) = 1200
    /\ t_order[1] = <<500>>
    /\ Len(t_out.v) = 1200

\* the paths of the mappings of a value that carry a truthy is_russian flag
Marked(data) == data.tag = "dict" /\ Truthy(DictGet(data, "is_russian"))
MarkedPaths(data) ==
    LET RECURSIVE Below(_, _)
        Below(v, path) ==
            (IF Marked(v) THEN {path} ELSE {})
            \cup UNION {Below(Child(v, k), path \o <<k>>) : k \in 1..NChildren(v)}
    IN  Below(data, <<>>)

IsPrefix(p, q) == Len(p) <= Len(q) /\ SubSeq(q, 1, Len(p)) = p

\* C13: with target language 'ru', TranslationManager returns a mapping with
\* a truthy is_russian flag unchanged wherever it occurs and calls
\* translate_text for no string beneath it, while the strings that are not
\* beneath such a mapping (its siblings' among them) are translated.
C13_MarkedMappingUntouched ==
    (/\ t_status \in {"running", "returned"}
     /\ t_impl = TranslationManagerImpl /\ t_lang = "ru" /\ ~IsLarge(t_in)) =>
        LET marked == MarkedPaths(t_in)
            beneath(q) == \E p \in marked : IsPrefix(p, q)
        IN  /\ \A n \in 1..Len(t_calls) : ~beneath(t_calls[n])
            /\ \A p \in marked :
                  /\ TaskAt(t_task, p).st = "done" => TaskAt(t_task, p).res = At(t_in, p)
                  /\ t_status = "returned" => At(t_out, p) = At(t_in, p)
            /\ t_status = "returned" =>
                  \A q \in StrPaths(t_in) :
                      ~beneath(q) =>
                          /\ \E n \in 1..Len(t_calls) : t_calls[n] = q
                          /\ At(t_out, q) = TranslateText(t_translator, At(t_in, q), t_lang)

C13_Witness ==
    /\ t_status = "returned"
    /\ t_impl = TranslationManagerImpl /\ t_lang = "ru" /\ t_translator = "engine"
    /\ t_in = ListV(<<FlaggedBook(BoolV(TRUE), S_x), FlaggedBook(BoolV(FALSE), S_y)>>)
    /\ t_calls = << <<2, 2>> >>
    /\ t_out = ListV(<<FlaggedBook(BoolV(TRUE), S_x),
                       FlaggedBook(BoolV(FALSE), <<"ru", ":">> \o S_y)>>)

\* keys whose values hold codes, not text
SkipKeys == {"language"}
\* the paths of the values held under a key of SkipKeys
SkippedPaths(data) ==
    LET RECURSIVE Below(_, _)
        Below(v, path) ==
            (IF v.tag = "dict"
             THEN {path \o <<k>> : k \in {j \in 1..Len(v.keys) : v.keys[j] \in SkipKeys}}
             ELSE {})
            \cup UNION {Below(Child(v, k), path \o <<k>>) : k \in 1..NChildren(v)}
    IN  Below(data, <<>>)

\* C14: in a mapping that is not exempt as a whole, the value under a key of
\* the skip-set (the key language holding en) is never passed to
\* translate_text and is unchanged in the output, while the values under the
\* other keys are translated.
C14_SkipSetKept ==
    (t_status \in {"running", "returned"} /\ ~IsLarge(t_in)) =>
        \A p \in SkippedPaths(t_in) :
            /\ \A n \in 1..Len(t_calls) : t_calls[n] # p
            /\ t_status = "returned" => At(t_out, p) = At(t_in, p)

\* keys whose values are identifiers: an entity's own and a link row's
\* references
IdKeys == {"id", "book_id", "author_id", "genre_id"}
\* the paths of the values held under one of the given keys
KeyPaths(data, keys) ==
    LET RECURSIVE Below(_, _)
        Below(v, path) ==
            (IF v.tag = "dict"
             THEN {path \o <<k>> : k \in {j \in 1..Len(v.keys) : v.keys[j] \in keys}}
             ELSE {})
            \cup UNION {Below(Child(v, k), path \o <<k>>) : k \in 1..NChildren(v)}
    IN  Below(data, <<>>)

\* C19: TranslationManager.translate returns an assembled search result with
\* the string values under the keys id, book_id, author_id and genre_id
\* unchanged, whatever the translator, so that each link row of the output
\* references the id of an entity of the output.
C19_IdentifiersKept ==
    (t_status = "returned" /\ t_impl = TranslationManagerImpl /\ t_in \in SearchResults) =>
        /\ \A p \in KeyPaths(t_in, IdKeys) : At(t_out, p) = At(t_in, p)
        /\ {At(t_out, p) : p \in KeyPaths(t_in, IdKeys \ {"id"})}
              \subseteq {At(t_out, p) : p \in KeyPaths(t_in, {"id"})}

\* the chunk an item of a sequence belongs to when the sequence is cut into
\* consecutive chunks of ChunkSize items
ChunkOf(k) == (k - 1) \div ChunkSize

\* C15: while a flat sequence of strings is translated, at most 500
\* translate_text calls are in flight at once, and no call of a chunk of 500
\* starts before every call of the chunk before it has been answered.
C15_AtMostChunkInFlight ==
    (t_status \in {"running", "returned"} /\ FlatStrings(t_in)) =>
        /\ Len(t_inflight) <= 500
        /\ \A n \in 1..Len(t_inflight) :
              ChunkOf(t_inflight[n][1]) = ChunkOf(t_inflight[1][1])

-----------------------------------------------------------------------------
\* Properties of the tree translators with failing calls (SpecFail)

\* a translate_text call has raised
CallFailed == \E n \in 1..Len(t_order) : t_order[n] \in t_fault

\* C12: once a translate_text call has raised, at any depth and in any chunk,
\* the translate call does not return a value: it ends by raising, and a
\* value it does return has every leaf translated.
C12_AllOrNothing ==
    t_status \in {"running", "returned", "raised"} =>
        /\ CallFailed => (t_status # "returned" /\ t_out \in {Pending, Raise("Exception")})
        /\ t_status = "raised" => (CallFailed /\ t_out = Raise("Exception"))
        /\ t_status = "returned" => t_out = T(t_in)

C12_Witness ==
    /\ t_status = "raised"
    /\ IsLarge(t_in)
    /\ t_fault = {<<ChunkSize + 1>>}
    /\ Len(t_order) = ChunkSize + 1
    /\ t_order[1] = <<1>>
    /\ t_task.res.tag = "partial" /\ Len(t_task.res.v) = ChunkSize
    /\ t_out = Raise("Exception")

\* ---------------------------------------------------------------------------
\* Properties of the route wrapper (SpecRoute)
\* ---------------------------------------------------------------------------

\* A task of the tree that is not finished: waiting to run, awaiting its
\* gather or its sleep, or awaiting translate_text
RECURSIVE Outstanding(_)
Outstanding(t) ==
    \/ t.st \in Active \cup {"call"}
    \/ \E k \in 1..Len(t.kids) : Outstanding(t.kids[k])

TimedOut == r_status \in {"timeout", "responded"} /\ t_status = "cancelled"

\* C18: when REQUEST_TIMEOUT elapses before the handler has finished, the
\* handler task and every translation task below it that is not done are
\* cancelled and no translate_text call is left awaited; no translate_text call
\* is started or answered afterwards; the client receives 504 with "Request
\* timeout"; and a 200 response carries the translation of the whole tree.
C18_TimeoutCancelsAll ==
    /\ [](TimedOut => (~Outstanding(t_task) /\ t_inflight = <<>>))
    /\ [](r_status = "responded" =>
             IF t_status = "cancelled"
             THEN r_response = Response(504, "Request timeout")
             ELSE r_response = Response(200, T(t_in)))
    /\ [][TimedOut => (t_calls' = t_calls /\ t_order' = t_order /\ t_task' = t_task)]_vars

C18_Witness ==
    /\ r_status = "responded"
    /\ r_response.code = 504
    /\ r_response.data = "Request timeout"
    /\ t_in = DictV(<<"a", "b">>, <<StrV(S_x), StrV(S_y)>>)
    /\ t_calls = << <<1>>, <<2>> >>
    /\ t_order = << <<1>> >>
    /\ TaskAt(t_task, <<1>>).st = "done"
    /\ TaskAt(t_task, <<2>>).st = "cancelled"
    /\ t_task.st = "cancelled"
    /\ t_out = Pending

\* ---------------------------------------------------------------------------
\* Properties of the shared parser (SpecSess)
\* ---------------------------------------------------------------------------

\* between its initialize() and its close()
InHandler(r) == g_req[r].pc \in {"validating", "searching", "fetching", "finishing"}

\* C20: requests handled concurrently do not interfere through the shared
\* parser: from a request's initialize() to its close(), parser.session is
\* the session that request opened and it is open; a fetch in progress uses
\* the request's own session, still open; and once every request is done each
\* session that was opened has been closed exactly once.
C20_NoInterference ==
    /\ \A r \in DOMAIN g_req :
          /\ InHandler(r) => (g_session = g_req[r].mine /\ ~Closed(g_req[r].mine))
          /\ g_req[r].using # 0 =>
                (g_req[r].using = g_req[r].mine /\ ~Closed(g_req[r].using))
    /\ (\A r \in DOMAIN g_req : g_req[r].pc = "done") =>
          \A s \in DOMAIN g_sessions : g_sessions[s].closes = 1

====
